---- MODULE Spec2Model ----
(***************************************************************************)
(* Verification model of the run lifecycle controller of wiselead-ai/openai *)
(*                                                                         *)
(*   - DoWithRetry   (httpclient/httpclient.go, and its copy doWithRetry)  *)
(*   - GetRun / WaitForRun (two copies of the threads file exist in the    *)
(*     repository: one that continues on requires_action and one that      *)
(*     does not; the variable `variant` selects the copy)                  *)
(*   - AddMessage / StreamThread                                           *)
(*   - WaitForVectorStoreCompletion                                        *)
(*                                                                         *)
(* Each component has its own specification (SpecRetry, SpecRun,           *)
(* SpecStream, SpecStore); the variables of the other components stay      *)
(* idle.                                                                   *)
(***************************************************************************)
EXTENDS Integers, Sequences, FiniteSets, TLC

VARIABLES
    \* ---- DoWithRetry ----
    rPc,        \* "do": about to call client.Do; "select": in the select; "done"
    attempt,    \* loop variable `attempt`
    lastErr,    \* local `lastErr`
    rResult,    \* the (resp, err) pair returned
    rCtxDone,   \* req.Context() is done
    rTrace,     \* history: outcome of every client.Do call, in order
    rWaits,     \* history: every delay handed to time.After, in order
    \* ---- WaitForRun ----
    variant,    \* which copy of WaitForRun is running
    wPc,        \* "top": at the select of the loop; "sleep": in time.Sleep; "done"
    wCtxDone,   \* ctx is done
    wResult,    \* the error returned ("nil" for success), "none" while running
    observed,   \* history: run.Status of every successful GetRun, in order
    fetches,    \* history: number of GetRun calls
    sleeps,     \* history: number of time.Sleep calls
    lastGet,    \* history: input and result of the latest GetRun call
    wOpen,      \* number of response bodies not yet closed
    wOpenPeak,  \* history: largest number of bodies open at the same time
    \* ---- StreamThread ----
    sPc,        \* position of the producing goroutine
    body,       \* history: lines returned by scanner.Scan so far
    pending,    \* value the producer is blocked sending on textChan
    received,   \* history: values the caller received from textChan
    textClosed, \* number of close(textChan) calls
    errBuf,     \* buffer of errChan (capacity 1)
    errClosed,  \* number of close(errChan) calls
    errSent,    \* history: every value sent on errChan
    errRecv,    \* history: values the caller received from errChan
    requests,   \* history: requests issued by the goroutine, in order
    exitPath,   \* history: the statement through which the goroutine returned
    sCtxDone,   \* ctx is done
    runResp,    \* history: status code of the response to the run request (0: none)
    \* ---- WaitForVectorStoreCompletion ----
    timeout,    \* parameter timeout (seconds)
    maxDelay,   \* parameter maxDelay (seconds)
    vPc,        \* "poll" (loop body), "sleep" (in time.Sleep), "done"
    vDelay,     \* local variable delay (seconds)
    elapsed,    \* time.Since(startTime) (seconds)
    vResult,    \* returned error; "none" while running
    vObserved,  \* history: every decoded response.Status, in order
    vSince,     \* history: time.Since(startTime) when each status was decoded
    vSleeps,    \* history: every duration handed to time.Sleep, in order
    vFetches,   \* history: number of DoWithRetry calls
    vOpen,      \* number of response bodies not yet closed
    vCtxDone,   \* ctx is done
    \* ---- AddMessage called on its own ----
    aPc,        \* "do" (first request), "sleep", "resend", "done"
    aTrace,     \* history: outcome of every c.httpClient.Do call, in order
    aSleeps,    \* history: number of time.Sleep(5 * time.Second) calls
    aResult,    \* returned error; "none" while running
    aCtxDone    \* ctx is done

retryVars  == <<rPc, attempt, lastErr, rResult, rCtxDone, rTrace, rWaits>>
runVars    == <<variant, wPc, wCtxDone, wResult, observed, fetches, sleeps, lastGet,
                wOpen, wOpenPeak>>
streamVars == <<sPc, body, pending, received, textClosed, errBuf, errClosed,
                errSent, errRecv, requests, exitPath, sCtxDone, runResp>>
storeVars  == <<timeout, maxDelay, vPc, vDelay, elapsed, vResult, vObserved,
                vSince, vSleeps, vFetches, vOpen, vCtxDone>>
addVars    == <<aPc, aTrace, aSleeps, aResult, aCtxDone>>
vars == <<retryVars, runVars, streamVars, storeVars, addVars>>

Last(s) == s[Len(s)]

MaxOf(a, b) == IF a > b THEN a ELSE b

RECURSIVE Pow2(_)
Pow2(n) == IF n = 0 THEN 1 ELSE 2 * Pow2(n - 1)

(***************************************************************************)
(* DoWithRetry                                                             *)
(***************************************************************************)
maxRetries == 5
baseRetryDelay == 2
maxRetryDelay == 30

\* Errors client.Do can return, and HTTP status codes a response can carry.
TransportErrors == {"connection refused", "timeout"}
CtxErr == "context canceled"
StatusCodes == {200, 404, 500}

\* What one client.Do call can yield.  A request whose context is already
\* done never yields a response.
DoOutcomes(ctxDone) ==
    IF ctxDone
    THEN {[kind |-> "err", err |-> CtxErr]}
    ELSE [kind : {"err"}, err : TransportErrors]
         \cup [kind : {"resp"}, code : StatusCodes]

NoResp == [kind |-> "nil"]
NoResult == [resp |-> NoResp, err |-> [kind |-> "pending"]]
NilErr == [kind |-> "nil"]

\* Mutant of RetryDelay: the delay is not capped.
RetryDelay_NoCap(a) == baseRetryDelay * Pow2(a)

\* delay := baseRetryDelay * 2^attempt, capped at maxRetryDelay (seconds)
RetryDelay(a) ==
    LET delay == baseRetryDelay * Pow2(a)
    IN  IF delay > maxRetryDelay THEN maxRetryDelay ELSE delay

\* fmt.Errorf("failed after %d retries: %w", maxRetries, lastErr)
ExhaustedErr(e) == [kind |-> "exhausted", wraps |-> e]
\* fmt.Errorf("request cancelled or timed out: %w", req.Context().Err())
CancelledErr == [kind |-> "cancelled", wraps |-> CtxErr]

RetryInit ==
    /\ rPc = "do"
    /\ attempt = 0
    /\ lastErr = "nil"
    /\ rResult = NoResult
    /\ rCtxDone \in BOOLEAN
    /\ rTrace = <<>>
    /\ rWaits = <<>>

RetryIdle ==
    /\ rPc = "done"
    /\ attempt = 0
    /\ lastErr = "nil"
    /\ rResult = NoResult
    /\ rCtxDone = FALSE
    /\ rTrace = <<>>
    /\ rWaits = <<>>

\* Mutant of LoopCond: one attempt fewer.
LoopCond_OneFewer(a) == a < maxRetries - 1

\* Loop condition of DoWithRetry.
LoopCond(a) == a < maxRetries

\* Mutant of DoWithRetry_Attempt: lastErr keeps the first error.
DoWithRetry_Attempt_KeepFirstErr ==
    /\ rPc = "do"
    /\ LoopCond(attempt)
    /\ \E o \in DoOutcomes(rCtxDone) :
         /\ rTrace' = Append(rTrace, o)
         /\ IF o.kind = "resp"
            THEN /\ rResult' = [resp |-> o, err |-> NilErr]
                 /\ rPc' = "done"
                 /\ UNCHANGED <<lastErr, rWaits>>
            ELSE /\ lastErr' = IF lastErr = "nil" THEN o.err ELSE lastErr
                 /\ rWaits' = Append(rWaits, RetryDelay(attempt))
                 /\ rPc' = "select"
                 /\ UNCHANGED rResult
    /\ UNCHANGED <<attempt, rCtxDone, runVars, streamVars, storeVars, addVars>>

\* Mutant of DoWithRetry_Attempt: a 5xx response is retried like an error.
DoWithRetry_Attempt_Retry5xx ==
    /\ rPc = "do"
    /\ LoopCond(attempt)
    /\ \E o \in DoOutcomes(rCtxDone) :
         /\ rTrace' = Append(rTrace, o)
         /\ IF o.kind = "resp" /\ o.code < 500
            THEN /\ rResult' = [resp |-> o, err |-> NilErr]
                 /\ rPc' = "done"
                 /\ UNCHANGED <<lastErr, rWaits>>
            ELSE /\ lastErr' = IF o.kind = "err" THEN o.err ELSE "server error"
                 /\ rWaits' = Append(rWaits, RetryDelay(attempt))
                 /\ rPc' = "select"
                 /\ UNCHANGED rResult
    /\ UNCHANGED <<attempt, rCtxDone, runVars, streamVars, storeVars, addVars>>

\* Mutant of DoWithRetry_Attempt: the last failed attempt returns the
\* exhaustion error without a wait.
DoWithRetry_Attempt_NoFinalWait ==
    /\ rPc = "do"
    /\ LoopCond(attempt)
    /\ \E o \in DoOutcomes(rCtxDone) :
         /\ rTrace' = Append(rTrace, o)
         /\ IF o.kind = "resp"
            THEN /\ rResult' = [resp |-> o, err |-> NilErr]
                 /\ rPc' = "done"
                 /\ UNCHANGED <<lastErr, rWaits>>
            ELSE /\ lastErr' = o.err
                 /\ IF LoopCond(attempt + 1)
                    THEN /\ rWaits' = Append(rWaits, RetryDelay(attempt))
                         /\ rPc' = "select"
                         /\ UNCHANGED rResult
                    ELSE /\ rPc' = "done"
                         /\ rResult' = [resp |-> NoResp, err |-> ExhaustedErr(o.err)]
                         /\ UNCHANGED rWaits
    /\ UNCHANGED <<attempt, rCtxDone, runVars, streamVars, storeVars, addVars>>

\* One loop iteration up to the select: client.Do, return on success,
\* otherwise remember the error and arm the timer.
DoWithRetry_Attempt ==
    /\ rPc = "do"
    /\ LoopCond(attempt)
    /\ \E o \in DoOutcomes(rCtxDone) :
         /\ rTrace' = Append(rTrace, o)
         /\ IF o.kind = "resp"
            THEN /\ rResult' = [resp |-> o, err |-> NilErr]
                 /\ rPc' = "done"
                 /\ UNCHANGED <<lastErr, rWaits>>
            ELSE /\ lastErr' = o.err
                 /\ rWaits' = Append(rWaits, RetryDelay(attempt))
                 /\ rPc' = "select"
                 /\ UNCHANGED rResult
    /\ UNCHANGED <<attempt, rCtxDone, runVars, streamVars, storeVars, addVars>>

\* case <-req.Context().Done()
DoWithRetry_CtxDone ==
    /\ rPc = "select"
    /\ rCtxDone
    /\ rResult' = [resp |-> NoResp, err |-> CancelledErr]
    /\ rPc' = "done"
    /\ UNCHANGED <<attempt, lastErr, rCtxDone, rTrace, rWaits, runVars, streamVars, storeVars, addVars>>

\* Mutant of TimerWins: the wait ignores the context.
TimerWins_IgnoreCtx(ctxDone) == TRUE

\* The timer can win the select only while the context is not done: the
\* delay is at least baseRetryDelay, so at the entry of the select the timer
\* has not fired, and a cancellation that arrives while the goroutine is
\* parked resolves the select.
TimerWins(ctxDone) == ~ctxDone

\* case <-time.After(delay): continue; then attempt++ and the loop test,
\* and the return after the loop when the test fails.
DoWithRetry_After ==
    /\ rPc = "select"
    /\ TimerWins(rCtxDone)
    /\ attempt' = attempt + 1
    /\ IF LoopCond(attempt + 1)
       THEN /\ rPc' = "do"
            /\ UNCHANGED rResult
       ELSE /\ rPc' = "done"
            /\ rResult' = [resp |-> NoResp, err |-> ExhaustedErr(lastErr)]
    /\ UNCHANGED <<lastErr, rCtxDone, rTrace, rWaits, runVars, streamVars, storeVars, addVars>>

\* The caller (or a deadline) cancels the request's context.
CancelRequest ==
    /\ rPc # "done"
    /\ ~rCtxDone
    /\ rCtxDone' = TRUE
    /\ UNCHANGED <<rPc, attempt, lastErr, rResult, rTrace, rWaits, runVars, streamVars, storeVars, addVars>>

(***************************************************************************)
(* GetRun / WaitForRun                                                     *)
(***************************************************************************)
RunStatusQueued == "queued"
RunStatusInProgress == "in_progress"
RunStatusCompleted == "completed"
RunStatusFailed == "failed"
RunStatusCancelling == "cancelling"
RunStatusCancelled == "cancelled"
RunStatusExpired == "expired"
RunStatusRequiresAction == "requires_action"
RunStatusPending == "pending"

\* Status strings a server can put in a run object: the declared constants,
\* a value that is not declared, and the empty string (no status field).
RunStatuses ==
    {RunStatusQueued, RunStatusInProgress, RunStatusCompleted, RunStatusFailed,
     RunStatusCancelling, RunStatusCancelled, RunStatusExpired,
     RunStatusRequiresAction, RunStatusPending, "unknown_status", ""}

\* The Run struct, as far as WaitForRun reads it.
Run == [Status : RunStatuses, LastError : {"nil", "set"}]

\* What the server and the transport give one GetRun call: DoWithRetry fails,
\* or it returns a response whose body is a run object or is not JSON.
FetchInputs ==
    {[transport |-> "err"]}
    \cup [transport : {"ok"}, code : {200, 404}, body : {"malformed"}]
    \cup [transport : {"ok"}, code : {200, 404}, body : {"json"}, run : Run]

\* GetRun: DoWithRetry, then json Decode; the status code is not looked at.
GetRun(in) ==
    IF in.transport = "err"
    THEN [err |-> "could not send request"]
    ELSE IF in.body = "malformed"
         THEN [err |-> "could not decode response"]
         ELSE [err |-> "nil", run |-> in.run]

\* Response bodies GetRun obtains: one when DoWithRetry returns a response.
BodiesOpened(in) == IF in.transport = "ok" THEN 1 ELSE 0

\* Mutant of BodiesClosed: the deferred close is missing.
BodiesClosed_NoDefer(in) == 0

\* Response bodies GetRun has closed when it returns:
\* defer resp.Body.Close() covers every path after the response.
BodiesClosed(in) == BodiesOpened(in)

\* The two copies of WaitForRun in the repository.
Variants == {"threads.go", "part_005"}

\* Mutant of ContinueCase: cancelling is waited on.
ContinueCase_Cancelling(v) ==
    IF v = "part_005"
    THEN {RunStatusQueued, RunStatusInProgress, RunStatusRequiresAction,
          RunStatusCancelling}
    ELSE {RunStatusQueued, RunStatusInProgress, RunStatusCancelling}

\* The statuses of the `time.Sleep; continue` case of the switch.
ContinueCase(v) ==
    IF v = "part_005"
    THEN {RunStatusQueued, RunStatusInProgress, RunStatusRequiresAction}
    ELSE {RunStatusQueued, RunStatusInProgress}

\* Mutant of SwitchStatus: the default case keeps polling.
SwitchStatus_DefaultContinues(v, run) ==
    CASE run.Status = RunStatusCompleted -> "nil"
      [] run.Status = RunStatusFailed ->
            IF run.LastError # "nil"
            THEN "run failed: code - message"
            ELSE "run failed without error details"
      [] run.Status \in {RunStatusCancelled, RunStatusExpired} ->
            "run ended with status"
      [] OTHER -> "continue"

\* switch run.Status: the error returned ("nil": success), or "continue".
SwitchStatus(v, run) ==
    CASE run.Status = RunStatusCompleted -> "nil"
      [] run.Status = RunStatusFailed ->
            IF run.LastError # "nil"
            THEN "run failed: code - message"
            ELSE "run failed without error details"
      [] run.Status \in {RunStatusCancelled, RunStatusExpired} ->
            "run ended with status"
      [] run.Status \in ContinueCase(v) -> "continue"
      [] OTHER -> "unknown run status"

RunInit ==
    /\ variant \in Variants
    /\ wPc = "top"
    /\ wCtxDone \in BOOLEAN
    /\ wResult = "none"
    /\ observed = <<>>
    /\ fetches = 0
    /\ sleeps = 0
    /\ lastGet = <<>>
    /\ wOpen = 0
    /\ wOpenPeak = 0

RunIdle ==
    /\ variant = "part_005"
    /\ wPc = "done"
    /\ wCtxDone = FALSE
    /\ wResult = "none"
    /\ observed = <<>>
    /\ fetches = 0
    /\ sleeps = 0
    /\ lastGet = <<>>
    /\ wOpen = 0
    /\ wOpenPeak = 0

\* Number of GetRun calls explored in one WaitForRun call.
MaxFetches == 4

\* select { case <-ctx.Done(): return ctx.Err() ...
WaitForRun_CtxDone ==
    /\ wPc = "top"
    /\ wCtxDone
    /\ wResult' = "ctx.Err"
    /\ wPc' = "done"
    /\ UNCHANGED <<variant, wCtxDone, observed, fetches, sleeps, lastGet, wOpen, wOpenPeak, retryVars, streamVars, storeVars, addVars>>

\* Mutant of DefaultCase: the context is not looked at.
DefaultCase_Always(ctxDone) == TRUE

\* select with a default case: the default case runs only when ctx.Done()
\* is not ready.
DefaultCase(ctxDone) == ~ctxDone

\* Mutant of WaitForRun_Poll: a failed fetch is retried after the sleep.
WaitForRun_Poll_RetryOnErr ==
    /\ wPc = "top"
    /\ DefaultCase(wCtxDone)
    /\ fetches < MaxFetches
    /\ \E in \in FetchInputs, c \in {wCtxDone, TRUE} :
         LET r == GetRun(in) IN
         /\ fetches' = fetches + 1
         /\ lastGet' = <<[in |-> in, out |-> r]>>
         /\ wOpenPeak' = MaxOf(wOpenPeak, wOpen + BodiesOpened(in))
         /\ wOpen' = wOpen + BodiesOpened(in) - BodiesClosed(in)
         /\ wCtxDone' = c
         /\ IF r.err # "nil"
            THEN /\ wPc' = "sleep"
                 /\ sleeps' = sleeps + 1
                 /\ UNCHANGED <<observed, wResult>>
            ELSE /\ observed' = Append(observed, r.run.Status)
                 /\ IF SwitchStatus(variant, r.run) = "continue"
                    THEN /\ wPc' = "sleep"
                         /\ sleeps' = sleeps + 1
                         /\ UNCHANGED wResult
                    ELSE /\ wPc' = "done"
                         /\ wResult' = SwitchStatus(variant, r.run)
                         /\ UNCHANGED sleeps
    /\ UNCHANGED <<variant, retryVars, streamVars, storeVars, addVars>>

\* ... default: GetRun, the error check and the switch on run.Status.  The
\* context may become done while GetRun is in flight (c).
WaitForRun_Poll ==
    /\ wPc = "top"
    /\ DefaultCase(wCtxDone)
    /\ fetches < MaxFetches
    /\ \E in \in FetchInputs, c \in {wCtxDone, TRUE} :
         LET r == GetRun(in) IN
         /\ fetches' = fetches + 1
         /\ lastGet' = <<[in |-> in, out |-> r]>>
         /\ wOpenPeak' = MaxOf(wOpenPeak, wOpen + BodiesOpened(in))
         /\ wOpen' = wOpen + BodiesOpened(in) - BodiesClosed(in)
         /\ wCtxDone' = c
         /\ IF r.err # "nil"
            THEN /\ wResult' = "failed to get run"
                 /\ wPc' = "done"
                 /\ UNCHANGED <<observed, sleeps>>
            ELSE /\ observed' = Append(observed, r.run.Status)
                 /\ IF SwitchStatus(variant, r.run) = "continue"
                    THEN /\ wPc' = "sleep"
                         /\ sleeps' = sleeps + 1
                         /\ UNCHANGED wResult
                    ELSE /\ wPc' = "done"
                         /\ wResult' = SwitchStatus(variant, r.run)
                         /\ UNCHANGED sleeps
    /\ UNCHANGED <<variant, retryVars, streamVars, storeVars, addVars>>

\* time.Sleep(time.Second) returns; continue.
WaitForRun_Wake ==
    /\ wPc = "sleep"
    /\ wPc' = "top"
    /\ UNCHANGED <<variant, wCtxDone, wResult, observed, fetches, sleeps, lastGet, wOpen, wOpenPeak, retryVars, streamVars, storeVars, addVars>>

\* The caller cancels ctx.
CancelWait ==
    /\ wPc # "done"
    /\ ~wCtxDone
    /\ wCtxDone' = TRUE
    /\ UNCHANGED <<variant, wPc, wResult, observed, fetches, sleeps, lastGet, wOpen, wOpenPeak, retryVars, streamVars, storeVars, addVars>>

(***************************************************************************)
(* AddMessage / StreamThread                                               *)
(***************************************************************************)
\* Status codes the messages endpoint can answer with.
AddStatusCodes == {200, 201, 400, 404, 409, 500}

\* What one c.httpClient.Do of AddMessage can yield; cantAdd: the response
\* body contains "Can't add messages to thread".
AddOutcomes(ctxDone) ==
    IF ctxDone
    THEN {[kind |-> "err", err |-> CtxErr]}
    ELSE [kind : {"err"}, err : TransportErrors]
         \cup [kind : {"resp"}, code : AddStatusCodes, cantAdd : BOOLEAN]

\* Mutant of AddMessage: every non-200 response is followed by a resend.
AddMessage_ResendAny(r1, r2) ==
    IF r1.kind = "err"
    THEN [err |-> "could not send request", sent |-> 1]
    ELSE IF r1.code # 200
         THEN IF r2.kind = "err"
              THEN [err |-> "could not send request", sent |-> 2]
              ELSE IF r2.code # 200
                   THEN [err |-> "unexpected status code", sent |-> 2]
                   ELSE [err |-> "nil", sent |-> 2]
         ELSE [err |-> "nil", sent |-> 1]

\* AddMessage, given the outcomes of its first and (if issued) second request:
\* the error returned and the number of requests sent.
AddMessage(r1, r2) ==
    IF r1.kind = "err"
    THEN [err |-> "could not send request", sent |-> 1]
    ELSE IF r1.code # 200
         THEN IF r1.cantAdd
              THEN IF r2.kind = "err"
                   THEN [err |-> "could not send request", sent |-> 2]
                   ELSE IF r2.code # 200
                        THEN [err |-> "unexpected status code", sent |-> 2]
                        ELSE [err |-> "nil", sent |-> 2]
              ELSE [err |-> "unexpected status code", sent |-> 1]
         ELSE [err |-> "nil", sent |-> 1]

\* AddMessage called directly by a client of the package.
AddInit ==
    /\ aPc = "do"
    /\ aTrace = <<>>
    /\ aSleeps = 0
    /\ aResult = "none"
    /\ aCtxDone \in BOOLEAN

\* AddMessage is not running.
AddIdle ==
    /\ aPc = "done"
    /\ aTrace = <<>>
    /\ aSleeps = 0
    /\ aResult = "none"
    /\ aCtxDone = FALSE

\* The first c.httpClient.Do, the status test and the test of the body; the
\* call either returns or enters time.Sleep(5 * time.Second).
AddMessage_Do ==
    /\ aPc = "do"
    /\ \E r1 \in AddOutcomes(aCtxDone) :
         LET a == AddMessage(r1, r1) IN
         /\ aTrace' = <<r1>>
         /\ IF a.sent = 1
            THEN /\ aResult' = a.err
                 /\ aPc' = "done"
                 /\ UNCHANGED aSleeps
            ELSE /\ aSleeps' = aSleeps + 1
                 /\ aPc' = "sleep"
                 /\ UNCHANGED aResult
    /\ UNCHANGED <<aCtxDone, retryVars, runVars, streamVars, storeVars>>

\* time.Sleep returns; it does not look at ctx.
AddMessage_Wake ==
    /\ aPc = "sleep"
    /\ aPc' = "resend"
    /\ UNCHANGED <<aTrace, aSleeps, aResult, aCtxDone, retryVars, runVars,
                   streamVars, storeVars>>

\* The second c.httpClient.Do(req) and the tests on its result.
AddMessage_Resend ==
    /\ aPc = "resend"
    /\ \E r2 \in AddOutcomes(aCtxDone) :
         /\ aTrace' = Append(aTrace, r2)
         /\ aResult' = AddMessage(aTrace[1], r2).err
    /\ aPc' = "done"
    /\ UNCHANGED <<aSleeps, aCtxDone, retryVars, runVars, streamVars, storeVars>>

\* The caller cancels ctx while AddMessage is running.
CancelAdd ==
    /\ aPc # "done"
    /\ ~aCtxDone
    /\ aCtxDone' = TRUE
    /\ UNCHANGED <<aPc, aTrace, aSleeps, aResult, retryVars, runVars, streamVars,
                   storeVars>>

\* The lines of a streamed body.  A line is its prefix and the rest; the
\* rest of a data line is the sentinel, text that is not JSON, or a JSON
\* object with the fields the anonymous struct threadMessage decodes.
TextValues == {"A", "B"}
ContentItem == [type : {"text", "image_file"}, value : TextValues]
Contents ==
    {<<>>}
    \cup {<<[type |-> "text", value |-> v]>> : v \in TextValues}
    \cup {<<[type |-> "image_file", value |-> "A"]>>,
          <<[type |-> "image_file", value |-> "A"], [type |-> "text", value |-> "B"]>>}
Payloads ==
    {[kind |-> "[DONE]"], [kind |-> "malformed"]}
    \cup [kind : {"object"},
          object : {"thread.message.delta", "thread.run.step.delta"},
          content : Contents]
EmptyLine == [pfx |-> "", payload |-> [kind |-> "none"]]
Lines ==
    {EmptyLine}
    \cup {[pfx |-> "event: ", payload |-> [kind |-> "none"]]}
    \cup [pfx : {"data: "}, payload : Payloads]

\* line == "" || !strings.HasPrefix(line, "data: ")
NotDataLine(line) == line = EmptyLine \/ line.pfx # "data: "

\* json.Unmarshal([]byte(data), &threadMessage)
Unmarshal(data) ==
    IF data.kind = "object"
    THEN [err |-> "nil", Object |-> data.object, Content |-> data.content]
    ELSE [err |-> "invalid"]

\* The condition that guards the send on textChan.
IsTextDelta(m) ==
    /\ m.Object = "thread.message.delta"
    /\ Len(m.Content) > 0
    /\ m.Content[1].type = "text"

\* Mutant of ProcessLine: a data line that is not JSON ends the loop.
ProcessLine_BreakOnMalformed(line) ==
    IF NotDataLine(line)
    THEN [do |-> "continue"]
    ELSE IF line.payload.kind = "[DONE]"
         THEN [do |-> "return"]
         ELSE LET m == Unmarshal(line.payload) IN
              IF m.err # "nil"
              THEN [do |-> "return"]
              ELSE IF IsTextDelta(m)
                   THEN [do |-> "send", value |-> m.Content[1].value]
                   ELSE [do |-> "continue"]

\* The body of the scan loop for one line: what the goroutine does next,
\* and the value it sends.
ProcessLine(line) ==
    IF NotDataLine(line)
    THEN [do |-> "continue"]
    ELSE IF line.payload.kind = "[DONE]"
         THEN [do |-> "return"]
         ELSE LET m == Unmarshal(line.payload) IN
              IF m.err # "nil"
              THEN [do |-> "continue"]
              ELSE IF IsTextDelta(m)
                   THEN [do |-> "send", value |-> m.Content[1].value]
                   ELSE [do |-> "continue"]

NoValue == "<none>"

\* Capacity of errChan: make(chan error, 1).
ErrChanCap == 1

\* Number of lines of a body explored.
MaxLines == 3

StreamInit ==
    /\ sPc = "start"
    /\ body = <<>>
    /\ pending = NoValue
    /\ received = <<>>
    /\ textClosed = 0
    /\ errBuf = <<>>
    /\ errClosed = 0
    /\ errSent = <<>>
    /\ errRecv = <<>>
    /\ requests = <<>>
    /\ exitPath = "none"
    /\ sCtxDone = FALSE
    /\ runResp = 0

StreamIdle ==
    /\ sPc = "done"
    /\ body = <<>>
    /\ pending = NoValue
    /\ received = <<>>
    /\ textClosed = 0
    /\ errBuf = <<>>
    /\ errClosed = 0
    /\ errSent = <<>>
    /\ errRecv = <<>>
    /\ requests = <<>>
    /\ exitPath = "none"
    /\ sCtxDone = FALSE
    /\ runResp = 0

\* A return statement of the goroutine: the deferred calls run next.
Return(path) ==
    /\ sPc' = "return"
    /\ exitPath' = path
    /\ UNCHANGED <<errClosed, textClosed>>

\* errChan <- e, on a channel of capacity ErrChanCap.
SendErr(e) ==
    /\ Len(errBuf) < ErrChanCap
    /\ errBuf' = Append(errBuf, e)
    /\ errSent' = Append(errSent, e)

\* Mutant of StreamThread_AddMessage: the return after the send is missing.
StreamThread_AddMessage_NoReturn ==
    /\ sPc = "start"
    /\ \E r1 \in AddOutcomes(sCtxDone), r2 \in AddOutcomes(sCtxDone) :
         LET a == AddMessage(r1, r2) IN
         /\ requests' = requests \o [i \in 1..a.sent |-> "messages"]
         /\ sPc' = "request"
         /\ IF a.err # "nil"
            THEN SendErr("could not add message")
            ELSE UNCHANGED <<errBuf, errSent>>
         /\ UNCHANGED <<errClosed, textClosed, exitPath>>
    /\ UNCHANGED <<body, pending, received, errRecv, sCtxDone, runResp, retryVars, runVars, storeVars, addVars>>

\* The goroutine calls AddMessage; on error it sends the error and returns.
StreamThread_AddMessage ==
    /\ sPc = "start"
    /\ \E r1 \in AddOutcomes(sCtxDone), r2 \in AddOutcomes(sCtxDone) :
         LET a == AddMessage(r1, r2) IN
         /\ requests' = requests \o [i \in 1..a.sent |-> "messages"]
         /\ IF a.err # "nil"
            THEN /\ SendErr("could not add message")
                 /\ Return("AddMessage")
            ELSE /\ sPc' = "request"
                 /\ UNCHANGED <<errBuf, errSent, errClosed, textClosed, exitPath>>
    /\ UNCHANGED <<body, pending, received, errRecv, sCtxDone, runResp, retryVars, runVars, storeVars, addVars>>

\* Mutant of StreamThread_Do: a transport failure is retried.
StreamThread_Do_Retry ==
    /\ sPc = "request"
    /\ \E o \in DoOutcomes(sCtxDone) :
         /\ requests' = Append(requests, "runs")
         /\ IF o.kind = "err" /\ Len(requests) < 4
            THEN /\ UNCHANGED <<sPc, runResp, errBuf, errSent, errClosed, textClosed, exitPath>>
            ELSE IF o.kind = "err"
            THEN /\ SendErr("could not send request")
                 /\ Return("Do")
                 /\ UNCHANGED runResp
            ELSE /\ sPc' = "scan"
                 /\ runResp' = o.code
                 /\ UNCHANGED <<errBuf, errSent, errClosed, textClosed, exitPath>>
    /\ UNCHANGED <<body, pending, received, errRecv, sCtxDone, retryVars, runVars, storeVars, addVars>>

\* resp, err := c.httpClient.Do(req) for the streaming run request.
StreamThread_Do ==
    /\ sPc = "request"
    /\ \E o \in DoOutcomes(sCtxDone) :
         /\ requests' = Append(requests, "runs")
         /\ IF o.kind = "err"
            THEN /\ SendErr("could not send request")
                 /\ Return("Do")
                 /\ UNCHANGED runResp
            ELSE /\ sPc' = "scan"
                 /\ runResp' = o.code
                 /\ UNCHANGED <<errBuf, errSent, errClosed, textClosed, exitPath>>
    /\ UNCHANGED <<body, pending, received, errRecv, sCtxDone, retryVars, runVars, storeVars, addVars>>

\* Mutant of StreamThread_ScanLine: a fragment equal to the one delivered
\* last is dropped.
StreamThread_ScanLine_Dedup ==
    /\ sPc = "scan"
    /\ Len(body) < MaxLines
    /\ \E line \in Lines :
         LET p == ProcessLine(line) IN
         /\ body' = Append(body, line)
         /\ CASE p.do = "continue" ->
                   UNCHANGED <<sPc, pending, exitPath, errClosed, textClosed>>
              [] p.do = "return" ->
                   /\ Return("[DONE]")
                   /\ UNCHANGED pending
              [] p.do = "send" ->
                   IF received # <<>> /\ Last(received) = p.value
                   THEN UNCHANGED <<sPc, pending, exitPath, errClosed, textClosed>>
                   ELSE /\ sPc' = "send"
                        /\ pending' = p.value
                        /\ UNCHANGED <<exitPath, errClosed, textClosed>>
    /\ UNCHANGED <<received, errBuf, errSent, errRecv, requests, sCtxDone, runResp, retryVars, runVars, storeVars, addVars>>

\* scanner.Scan() returns a line, and the loop body runs on it.
StreamThread_ScanLine ==
    /\ sPc = "scan"
    /\ Len(body) < MaxLines
    /\ \E line \in Lines :
         LET p == ProcessLine(line) IN
         /\ body' = Append(body, line)
         /\ CASE p.do = "continue" ->
                   UNCHANGED <<sPc, pending, exitPath, errClosed, textClosed>>
              [] p.do = "return" ->
                   /\ Return("[DONE]")
                   /\ UNCHANGED pending
              [] p.do = "send" ->
                   /\ sPc' = "send"
                   /\ pending' = p.value
                   /\ UNCHANGED <<exitPath, errClosed, textClosed>>
    /\ UNCHANGED <<received, errBuf, errSent, errRecv, requests, sCtxDone, runResp, retryVars, runVars, storeVars, addVars>>

\* Mutant of StreamThread_ScanEnd: scanner.Err() is not looked at.
StreamThread_ScanEnd_SilentErr ==
    /\ sPc = "scan"
    /\ \/ Return("EOF")
       \/ Return("scanner.Err")
    /\ UNCHANGED <<errBuf, errSent>>
    /\ UNCHANGED <<body, pending, received, errRecv, requests, sCtxDone, runResp, retryVars, runVars, storeVars, addVars>>

\* scanner.Scan() returns false: the body ended (scanner.Err() is nil) or
\* reading it failed (the error is sent).
StreamThread_ScanEnd ==
    /\ sPc = "scan"
    /\ \/ /\ Return("EOF")
          /\ UNCHANGED <<errBuf, errSent>>
       \/ /\ SendErr("scanner error")
          /\ Return("scanner.Err")
    /\ UNCHANGED <<body, pending, received, errRecv, requests, sCtxDone, runResp, retryVars, runVars, storeVars, addVars>>

\* Mutant of StreamThread_Deferred: errChan is never closed.
StreamThread_Deferred_NoErrClose ==
    /\ sPc = "return"
    /\ textClosed' = textClosed + 1
    /\ sPc' = "done"
    /\ UNCHANGED <<body, pending, received, errBuf, errClosed, errSent, errRecv,
                   requests, exitPath, sCtxDone, runResp, retryVars, runVars, storeVars, addVars>>

\* The deferred calls, last registered first: resp.Body.Close() when a
\* response was obtained, close(errChan), close(textChan).
StreamThread_Deferred ==
    /\ sPc = "return"
    /\ errClosed' = errClosed + 1
    /\ textClosed' = textClosed + 1
    /\ sPc' = "done"
    /\ UNCHANGED <<body, pending, received, errBuf, errSent, errRecv, requests,
                   exitPath, sCtxDone, runResp, retryVars, runVars, storeVars, addVars>>

\* The caller receives from textChan: the blocked send completes.
ReceiveText ==
    /\ sPc = "send"
    /\ received' = Append(received, pending)
    /\ pending' = NoValue
    /\ sPc' = "scan"
    /\ UNCHANGED <<body, textClosed, errBuf, errClosed, errSent, errRecv, requests,
                   exitPath, sCtxDone, runResp, retryVars, runVars, storeVars, addVars>>

\* The caller receives from errChan.
ReceiveErr ==
    /\ errBuf # <<>>
    /\ errRecv' = Append(errRecv, Head(errBuf))
    /\ errBuf' = Tail(errBuf)
    /\ UNCHANGED <<sPc, body, pending, received, textClosed, errClosed, errSent,
                   requests, exitPath, sCtxDone, runResp, retryVars, runVars, storeVars, addVars>>

\* The caller cancels ctx.
CancelStream ==
    /\ sPc # "done"
    /\ ~sCtxDone
    /\ sCtxDone' = TRUE
    /\ UNCHANGED <<sPc, body, pending, received, textClosed, errBuf, errClosed,
                   errSent, errRecv, requests, exitPath, runResp, retryVars, runVars, storeVars, addVars>>

(***************************************************************************)
(* WaitForVectorStoreCompletion                                            *)
(***************************************************************************)
\* Values of VectorStore.Status the server may report; "" is an absent field.
VectorStoreStatuses == {"completed", "failed", "in_progress", "expired", ""}

\* What one fetch can yield: DoWithRetry fails, the body does not decode,
\* or a VectorStore with some Status is decoded.
StoreFetches ==
    [kind : {"send error", "decode error"}] \cup
    [kind : {"json"}, Status : VectorStoreStatuses]

\* Seconds one fetch (request, retries, decoding) can take.
FetchDurations == {1, 3}

\* Caller-supplied timeout and maxDelay (seconds).
Timeouts == {0, 6, 60}
MaxDelays == {1, 3, 8}

\* Number of fetches explored.
MaxPolls == 4

StoreCompletedNil == "nil"
StoreSendErr == "failed to send HTTP request"
StoreDecodeErr == "failed to decode response"
StoreFailedErr == "vector store creation failed"
StoreTimeoutErr == "timeout reached while waiting for vector store completion"

\* Mutant of StatusOutcome: an unrecognized status is taken as a failure.
StatusOutcome_OnlyInProgressContinues(status) ==
    IF status = "completed" THEN StoreCompletedNil
    ELSE IF status = "failed" THEN StoreFailedErr
    ELSE IF status = "in_progress" THEN "continue"
    ELSE StoreFailedErr

\* if response.Status == "completed" { return nil }
\* if response.Status == "failed" { return error }; otherwise fall through.
StatusOutcome(status) ==
    IF status = "completed" THEN StoreCompletedNil
    ELSE IF status = "failed" THEN StoreFailedErr
    ELSE "continue"

\* Mutant of TimedOut: the timeout is never reached.
TimedOut_Never(since, limit) == FALSE

\* if time.Since(startTime) > timeout
TimedOut(since, limit) == since > limit

\* if delay < maxDelay { delay *= 2 }
NextDelay(d, max) == IF d < max THEN d * 2 ELSE d

\* startTime := time.Now(); delay := 1 * time.Second
StoreInit ==
    /\ timeout \in Timeouts
    /\ maxDelay \in MaxDelays
    /\ vPc = "poll"
    /\ vDelay = 1
    /\ elapsed = 0
    /\ vResult = "none"
    /\ vObserved = <<>>
    /\ vSince = <<>>
    /\ vSleeps = <<>>
    /\ vFetches = 0
    /\ vOpen = 0
    /\ vCtxDone = FALSE

\* WaitForVectorStoreCompletion is not running.
StoreIdle ==
    /\ timeout = 0
    /\ maxDelay = 1
    /\ vPc = "done"
    /\ vDelay = 1
    /\ elapsed = 0
    /\ vResult = "none"
    /\ vObserved = <<>>
    /\ vSince = <<>>
    /\ vSleeps = <<>>
    /\ vFetches = 0
    /\ vOpen = 0
    /\ vCtxDone = FALSE

\* Mutant of WaitForVectorStoreCompletion_Poll: the timeout is tested before
\* the status.
WaitForVectorStoreCompletion_Poll_TimeoutFirst ==
    /\ vPc = "poll"
    /\ vFetches < MaxPolls
    /\ \E f \in StoreFetches, d \in FetchDurations :
         /\ vFetches' = vFetches + 1
         /\ elapsed' = elapsed + d
         /\ IF f.kind = "send error"
            THEN /\ vResult' = StoreSendErr
                 /\ vPc' = "done"
                 /\ vOpen' = 0
                 /\ UNCHANGED <<vObserved, vSince, vDelay, vSleeps>>
            ELSE IF f.kind = "decode error"
            THEN /\ vResult' = StoreDecodeErr
                 /\ vPc' = "done"
                 /\ vOpen' = 0
                 /\ UNCHANGED <<vObserved, vSince, vDelay, vSleeps>>
            ELSE /\ vObserved' = Append(vObserved, f.Status)
                 /\ vSince' = Append(vSince, elapsed')
                 /\ IF TimedOut(elapsed', timeout)
                    THEN /\ vResult' = StoreTimeoutErr
                         /\ vPc' = "done"
                         /\ vOpen' = 0
                         /\ UNCHANGED <<vDelay, vSleeps>>
                    ELSE IF StatusOutcome(f.Status) # "continue"
                    THEN /\ vResult' = StatusOutcome(f.Status)
                         /\ vPc' = "done"
                         /\ vOpen' = 0
                         /\ UNCHANGED <<vDelay, vSleeps>>
                    ELSE /\ vDelay' = NextDelay(vDelay, maxDelay)
                         /\ vSleeps' = Append(vSleeps, vDelay')
                         /\ vPc' = "sleep"
                         /\ vOpen' = vOpen + 1
                         /\ UNCHANGED vResult
    /\ UNCHANGED <<timeout, maxDelay, vCtxDone, retryVars, runVars, streamVars, addVars>>

\* One loop body: build the request (ctx is not attached to it),
\* DoWithRetry, defer resp.Body.Close(), decode, the two status tests, the
\* timeout test, the doubling of delay, and the entry into time.Sleep.  A
\* return runs the deferred closes of every response obtained so far.
WaitForVectorStoreCompletion_Poll ==
    /\ vPc = "poll"
    /\ vFetches < MaxPolls
    /\ \E f \in StoreFetches, d \in FetchDurations :
         /\ vFetches' = vFetches + 1
         /\ elapsed' = elapsed + d
         /\ IF f.kind = "send error"
            THEN /\ vResult' = StoreSendErr
                 /\ vPc' = "done"
                 /\ vOpen' = 0
                 /\ UNCHANGED <<vObserved, vSince, vDelay, vSleeps>>
            ELSE IF f.kind = "decode error"
            THEN /\ vResult' = StoreDecodeErr
                 /\ vPc' = "done"
                 /\ vOpen' = 0
                 /\ UNCHANGED <<vObserved, vSince, vDelay, vSleeps>>
            ELSE /\ vObserved' = Append(vObserved, f.Status)
                 /\ vSince' = Append(vSince, elapsed')
                 /\ IF StatusOutcome(f.Status) # "continue"
                    THEN /\ vResult' = StatusOutcome(f.Status)
                         /\ vPc' = "done"
                         /\ vOpen' = 0
                         /\ UNCHANGED <<vDelay, vSleeps>>
                    ELSE IF TimedOut(elapsed', timeout)
                    THEN /\ vResult' = StoreTimeoutErr
                         /\ vPc' = "done"
                         /\ vOpen' = 0
                         /\ UNCHANGED <<vDelay, vSleeps>>
                    ELSE /\ vDelay' = NextDelay(vDelay, maxDelay)
                         /\ vSleeps' = Append(vSleeps, vDelay')
                         /\ vPc' = "sleep"
                         /\ vOpen' = vOpen + 1
                         /\ UNCHANGED vResult
    /\ UNCHANGED <<timeout, maxDelay, vCtxDone, retryVars, runVars, streamVars, addVars>>

\* time.Sleep(delay) returns; the loop starts over.
WaitForVectorStoreCompletion_Wake ==
    /\ vPc = "sleep"
    /\ vPc' = "poll"
    /\ elapsed' = elapsed + vDelay
    /\ UNCHANGED <<timeout, maxDelay, vDelay, vResult, vObserved, vSince, vSleeps,
                   vFetches, vOpen, vCtxDone, retryVars, runVars, streamVars, addVars>>

\* The caller cancels ctx while the wait is running.
CancelStoreWait ==
    /\ vPc # "done"
    /\ ~vCtxDone
    /\ vCtxDone' = TRUE
    /\ UNCHANGED <<timeout, maxDelay, vPc, vDelay, elapsed, vResult, vObserved,
                   vSince, vSleeps, vFetches, vOpen, retryVars, runVars, streamVars, addVars>>

(***************************************************************************)
(* Specifications                                                          *)
(***************************************************************************)
InitRetry == RetryInit /\ RunIdle /\ StreamIdle /\ StoreIdle /\ AddIdle
NextRetry ==
    \/ DoWithRetry_Attempt
    \/ DoWithRetry_CtxDone
    \/ DoWithRetry_After
    \/ CancelRequest
SpecRetry == InitRetry /\ [][NextRetry]_vars

InitRun == RetryIdle /\ RunInit /\ StreamIdle /\ StoreIdle /\ AddIdle
NextRun ==
    \/ WaitForRun_CtxDone
    \/ WaitForRun_Poll
    \/ WaitForRun_Wake
    \/ CancelWait
SpecRun == InitRun /\ [][NextRun]_vars

InitStream == RetryIdle /\ RunIdle /\ StreamInit /\ StoreIdle /\ AddIdle
NextStream ==
    \/ StreamThread_AddMessage
    \/ StreamThread_Do
    \/ StreamThread_ScanLine
    \/ StreamThread_ScanEnd
    \/ StreamThread_Deferred
    \/ ReceiveText
    \/ ReceiveErr
    \/ CancelStream
SpecStream == InitStream /\ [][NextStream]_vars

\* One line of each kind the loop distinguishes: skipped without a look,
\* skipped after a failed decoding, the sentinel, and a text fragment.
LiveLines ==
    {EmptyLine,
     [pfx |-> "data: ", payload |-> [kind |-> "malformed"]],
     [pfx |-> "data: ", payload |-> [kind |-> "[DONE]"]],
     [pfx |-> "data: ", payload |-> [kind |-> "object",
                                      object |-> "thread.message.delta",
                                      content |-> <<[type |-> "text", value |-> "A"]>>]]}

NextStreamLive ==
    \/ StreamThread_AddMessage
    \/ StreamThread_Do
    \/ (StreamThread_ScanLine /\ Last(body') \in LiveLines)
    \/ StreamThread_ScanEnd
    \/ StreamThread_Deferred
    \/ ReceiveText
    \/ ReceiveErr
    \/ CancelStream

\* StreamThread with a caller that keeps receiving from both channels and a
\* scheduler that lets the goroutine run: every step of the goroutine and
\* every receive that stays possible is eventually taken.  The body is
\* finite (at most MaxLines lines), so the scanner eventually stops.
StreamFairness ==
    /\ WF_vars(StreamThread_AddMessage)
    /\ WF_vars(StreamThread_Do)
    /\ WF_vars(StreamThread_ScanEnd)
    /\ WF_vars(StreamThread_Deferred)
    /\ WF_vars(ReceiveText)
    /\ WF_vars(ReceiveErr)
SpecStreamLive == InitStream /\ [][NextStreamLive]_vars /\ StreamFairness

InitStore == RetryIdle /\ RunIdle /\ StreamIdle /\ StoreInit /\ AddIdle
NextStore ==
    \/ WaitForVectorStoreCompletion_Poll
    \/ WaitForVectorStoreCompletion_Wake
    \/ CancelStoreWait
SpecStore == InitStore /\ [][NextStore]_vars

\* Either poller, called on its own.
InitPollers ==
    /\ RetryIdle /\ StreamIdle /\ AddIdle
    /\ \/ RunInit /\ StoreIdle
       \/ RunIdle /\ StoreInit
NextPollers ==
    \/ WaitForRun_CtxDone
    \/ WaitForRun_Poll
    \/ WaitForRun_Wake
    \/ CancelWait
    \/ WaitForVectorStoreCompletion_Poll
    \/ WaitForVectorStoreCompletion_Wake
    \/ CancelStoreWait
SpecPollers == InitPollers /\ [][NextPollers]_vars

InitAdd == RetryIdle /\ RunIdle /\ StreamIdle /\ StoreIdle /\ AddInit
NextAdd ==
    \/ AddMessage_Do
    \/ AddMessage_Wake
    \/ AddMessage_Resend
    \/ CancelAdd
SpecAdd == InitAdd /\ [][NextAdd]_vars

(***************************************************************************)
(* Run Poller: vocabulary of the properties                                *)
(***************************************************************************)
\* The continue-states, terminal states and documented states of the Run
\* Poller's state machine as the specification lists them.
PollerContinue == {"queued", "in_progress", "requires_action"}
PollerFailure == {"failed", "cancelled", "expired"}
PollerDocumented == PollerContinue \cup {"completed"} \cup PollerFailure

\* WaitForRun returned, its context was never cancelled and no fetch failed.
ReturnedOnStatus ==
    /\ wPc = "done"
    /\ ~wCtxDone
    /\ wResult # "failed to get run"

\* Index of the first status of s that is not a continue-state (0: none).
FirstNonContinue(s) ==
    IF \E i \in 1..Len(s) : s[i] \notin PollerContinue
    THEN CHOOSE i \in 1..Len(s) :
            /\ s[i] \notin PollerContinue
            /\ \A j \in 1..(i - 1) : s[j] \in PollerContinue
    ELSE 0

\* C1: for every sequence of fetched statuses (context never cancelled, no
\* fetch error) WaitForRun returns nil when the first non-continue status is
\* completed, a non-nil error when it is failed, cancelled or expired, and
\* it does not return while only continue-states have been observed.
C1_WaitForRunOutcome ==
    ReturnedOnStatus =>
        LET i == FirstNonContinue(observed) IN
        /\ i # 0
        /\ observed[i] = "completed" => wResult = "nil"
        /\ observed[i] \in PollerFailure => wResult \notin {"nil", "none"}

\* C2: WaitForRun performs exactly as many fetches as the position of the
\* first terminal status of the sequence, 3 for [queued, in_progress,
\* completed] with success and 2 for [queued, cancelled] with failure, and
\* never fetches after a terminal status.
C2_FetchCount ==
    /\ \A i \in 1..Len(observed) :
          observed[i] \notin PollerContinue => i = Len(observed) /\ fetches = i
    /\ ReturnedOnStatus =>
          /\ FirstNonContinue(observed) = fetches
          /\ observed = <<"queued", "in_progress", "completed">> =>
                fetches = 3 /\ wResult = "nil"
          /\ observed = <<"queued", "cancelled">> =>
                fetches = 2 /\ wResult \notin {"nil", "none"}

\* C3: a fetched status that is not one of the seven documented ones makes
\* WaitForRun return a failure on that observation, with no further fetch.
C3_UnknownStatusFails ==
    \A i \in 1..Len(observed) :
        observed[i] \notin PollerDocumented =>
            /\ i = Len(observed)
            /\ fetches = i
            /\ wPc = "done"
            /\ wResult = "unknown run status"
            /\ sleeps = i - 1

\* C3 witness: an undocumented status was fetched after a continue-state.
C3_Witness ==
    /\ wPc = "done"
    /\ Len(observed) = 2
    /\ observed[1] = "queued"
    /\ observed[2] = "unknown_status"

\* C4: requires_action is a continue-state: on observing it WaitForRun
\* sleeps and fetches again instead of returning, and [requires_action,
\* in_progress, completed] ends in success after 3 fetches.
C4_RequiresActionContinues ==
    /\ (Len(observed) > 0 /\ Last(observed) = "requires_action") =>
          \/ wPc \in {"sleep", "top"}
          \/ wPc = "done" /\ wResult \in {"ctx.Err", "failed to get run"}
    /\ (wPc = "done" /\ observed = <<"requires_action", "in_progress", "completed">>) =>
          fetches = 3 /\ wResult = "nil"

\* The copy of WaitForRun that has requires_action in its continue case.
IsPart005 == variant = "part_005"
C1_OnPart005 == IsPart005 => C1_WaitForRunOutcome
C2_OnPart005 == IsPart005 => C2_FetchCount
C4_OnPart005 == IsPart005 => C4_RequiresActionContinues

(***************************************************************************)
(* Transport: properties                                                   *)
(***************************************************************************)
\* Number of failed client.Do calls in a trace.
NumFailed(t) == Cardinality({i \in 1..Len(t) : t[i].kind = "err"})

\* DoWithRetry returned and its context was never cancelled.
ReturnedUncancelled == rPc = "done" /\ ~rCtxDone

\* C5: when the attempts fail k < 5 times at the connection level and then
\* succeed (context not cancelled), DoWithRetry returns that response with a
\* nil error after exactly k+1 attempts; it does not give up before.
C5_RetryThenSuccess ==
    ReturnedUncancelled =>
        /\ NumFailed(rTrace) < 5 =>
              /\ Last(rTrace).kind = "resp"
              /\ rResult = [resp |-> Last(rTrace), err |-> NilErr]
              /\ Len(rTrace) = NumFailed(rTrace) + 1
        /\ rResult.err = NilErr => NumFailed(rTrace) < 5

\* C5 witness: four failures, then a response that is returned.
C5_Witness ==
    /\ ReturnedUncancelled
    /\ NumFailed(rTrace) = 4
    /\ Len(rTrace) = 5
    /\ rResult.err = NilErr

\* C6: never more than 5 attempts; when all 5 fail and the context is never
\* cancelled the result is a nil response and an error wrapping the error of
\* the fifth attempt.
C6_Exhaustion ==
    /\ Len(rTrace) <= 5
    /\ (ReturnedUncancelled /\ NumFailed(rTrace) = 5) =>
          rResult = [resp |-> NoResp,
                     err |-> [kind |-> "exhausted", wraps |-> rTrace[5].err]]

\* C6 witness: five failures whose first and last errors differ.
C6_Witness ==
    /\ ReturnedUncancelled
    /\ NumFailed(rTrace) = 5
    /\ rTrace[1].err = "timeout"
    /\ rTrace[5].err = "connection refused"

\* C7: when the context is cancelled while DoWithRetry waits between
\* attempts, its next step is to return the cancellation error (wrapping the
\* context's error), with no further attempt.
C7_CancelDuringWait ==
    [][(rPc = "select" /\ rCtxDone) =>
          /\ rPc' = "done"
          /\ rResult' = [resp |-> NoResp,
                         err |-> [kind |-> "cancelled", wraps |-> "context canceled"]]
          /\ rTrace' = rTrace]_vars

\* C7 witness: the second attempt failed with a transport error, the context
\* was cancelled during the wait that followed, and the call returned.
C7_Witness ==
    /\ rPc = "done"
    /\ rResult.err.kind = "cancelled"
    /\ Len(rTrace) = 2
    /\ rTrace[2].err = "timeout"

\* C8: an attempt that yields an HTTP response, whatever its status code, is
\* the last one: the response is returned with a nil error, with no wait
\* after it and no retry.
C8_NoRetryOnStatus ==
    \A i \in 1..Len(rTrace) :
        rTrace[i].kind = "resp" =>
            /\ i = Len(rTrace)
            /\ rPc = "done"
            /\ rResult = [resp |-> rTrace[i], err |-> NilErr]
            /\ Len(rWaits) = i - 1

\* C8 witness: the first attempt yields a 500 response, which is returned.
C8_Witness ==
    /\ rPc = "done"
    /\ rTrace = <<[kind |-> "resp", code |-> 500]>>
    /\ rWaits = <<>>
    /\ rResult.err = NilErr

(***************************************************************************)
(* Stream Consumer: properties                                             *)
(***************************************************************************)
DoneLine == [pfx |-> "data: ", payload |-> [kind |-> "[DONE]"]]

\* A recognized text-delta data line: a data line carrying a JSON object
\* that is a message delta whose first content item is text.
TextDeltaLine(l) ==
    /\ l.pfx = "data: "
    /\ l.payload.kind = "object"
    /\ l.payload.object = "thread.message.delta"
    /\ l.payload.content # <<>>
    /\ Head(l.payload.content).type = "text"

\* A data line that is malformed JSON, or JSON that is not a text delta.
UnrecognizedDataLine(l) ==
    /\ l.pfx = "data: "
    /\ l # DoneLine
    /\ ~TextDeltaLine(l)

\* The text values of the recognized text-delta lines of ls, in order.
RECURSIVE ExpectedTexts(_)
ExpectedTexts(ls) ==
    IF ls = <<>>
    THEN <<>>
    ELSE LET rest == ExpectedTexts(Tail(ls)) IN
         IF TextDeltaLine(Head(ls))
         THEN <<Head(Head(ls).payload.content).value>> \o rest
         ELSE rest

C10_SkipUnrecognized ==
    /\ [](ExpectedTexts(body) =
             received \o (IF pending = NoValue THEN <<>> ELSE <<pending>>))
    /\ [][(Len(body') = Len(body) + 1 /\ UnrecognizedDataLine(Last(body'))) =>
             /\ sPc' = "scan"
             /\ UNCHANGED <<pending, received, errBuf, errSent, errClosed,
                            textClosed, exitPath>>]_vars

\* C10 witness: a malformed data line between two deltas, both delivered.
C10_Witness ==
    /\ Len(body) = 3
    /\ TextDeltaLine(body[1])
    /\ body[2] = [pfx |-> "data: ", payload |-> [kind |-> "malformed"]]
    /\ TextDeltaLine(body[3])
    /\ received = <<"A", "B">>

\* The elements of a sequence.
Range(s) == {s[i] : i \in 1..Len(s)}

\* The return statements of the producing goroutine.
ExitPaths == {"AddMessage", "Do", "[DONE]", "EOF", "scanner.Err"}

\* C11: on every exit path of the producing goroutine (message-append
\* failure, request failure, [DONE], end of body, read error) the text
\* channel and the error channel are both closed, each exactly once, and an
\* error, if any, is sent before the error channel is closed.
C11_ClosedOnce ==
    /\ [](/\ textClosed <= 1
          /\ errClosed <= 1
          /\ sPc = "done" => textClosed = 1 /\ errClosed = 1 /\ exitPath \in ExitPaths
          /\ sPc # "done" => textClosed = 0 /\ errClosed = 0)
    /\ [][errSent' # errSent => errClosed = 0 /\ errClosed' = 0]_vars

\* C11 witness: the goroutine returned on a read error, sent it, and both
\* channels are closed.
C11_Witness ==
    /\ sPc = "done"
    /\ exitPath = "scanner.Err"
    /\ errSent = <<"scanner error">>
    /\ textClosed = 1
    /\ errClosed = 1

\* C16: when reading the streamed body fails the read loop ends, exactly one
\* error is delivered on the error channel, and no text fragment is sent
\* after it.
C16_ReadError ==
    /\ [](exitPath = "scanner.Err" =>
             /\ errSent = <<"scanner error">>
             /\ pending = NoValue
             /\ sPc \in {"return", "done"})
    /\ [][errSent # <<>> => UNCHANGED <<received, pending, body, errSent>>]_vars

\* C16 witness: a fragment was delivered, then the read failed and the
\* error was received by the caller.
C16_Witness ==
    /\ exitPath = "scanner.Err"
    /\ received = <<"A">>
    /\ errRecv = <<"scanner error">>
    /\ sPc = "done"

\* C17: when appending the user message fails the error is delivered on the
\* error channel, both channels are then closed, no text is ever emitted and
\* the run-creation request is never issued.
C17_AddMessageFails ==
    "could not add message" \in Range(errSent) =>
        /\ exitPath = "AddMessage"
        /\ sPc \in {"return", "done"}
        /\ errSent = <<"could not add message">>
        /\ received = <<>>
        /\ pending = NoValue
        /\ body = <<>>
        /\ "runs" \notin Range(requests)
        /\ sPc = "done" => textClosed = 1 /\ errClosed = 1

\* C17 witness: the resend of AddMessage failed too, the error was sent and
\* the channels are closed.
C17_Witness ==
    /\ sPc = "done"
    /\ exitPath = "AddMessage"
    /\ requests = <<"messages", "messages">>
    /\ errSent = <<"could not add message">>

\* C19: when the server answers the streaming run-creation request with an
\* HTTP 4xx/5xx response, the caller receives an error on the error channel
\* before the channels close.
C19_HttpErrorSurfaced ==
    (sPc = "done" /\ runResp >= 400) => errSent # <<>>

(***************************************************************************)
(* Run Poller: cancellation, fetch errors, GetRun                          *)
(***************************************************************************)
\* C14: WaitForRun checks the context at the top of every loop iteration:
\* once the context is cancelled no new fetch is started (none at all when
\* it was cancelled at the call), and at the top of the loop WaitForRun
\* returns the context's cancellation error.
C14_CancelAtLoopTop ==
    /\ [][wCtxDone => fetches' = fetches]_vars
    /\ [][(wPc = "top" /\ wCtxDone) =>
             (wPc' = "done" /\ wResult' = "ctx.Err")]_vars

\* C14 witness: two continue-states were fetched, the context was cancelled
\* and WaitForRun returned ctx.Err() without a third fetch.
C14_Witness ==
    /\ wPc = "done"
    /\ wResult = "ctx.Err"
    /\ observed = <<"queued", "in_progress">>
    /\ fetches = 2

\* C15: when a fetch returns an error WaitForRun returns an error wrapping
\* it at once: no sleep, no further fetch, and never success.
C15_FetchErrorAborts ==
    (lastGet # <<>> /\ lastGet[1].out.err # "nil") =>
        /\ wPc = "done"
        /\ wResult = "failed to get run"
        /\ fetches = Len(observed) + 1
        /\ sleeps = Len(observed)

\* C15 witness: the second fetch failed after one continue-state.
C15_Witness ==
    /\ wPc = "done"
    /\ observed = <<"queued">>
    /\ fetches = 2
    /\ lastGet # <<>>
    /\ lastGet[1].out.err = "could not send request"
    /\ wResult = "failed to get run"

\* C20: GetRun returns an error whenever the server answers with a non-200
\* status, whatever the body contains; it returns a decoded Run only for a
\* 200 response.
C20_GetRunChecksStatus ==
    (lastGet # <<>> /\ lastGet[1].in.transport = "ok" /\ lastGet[1].in.code # 200) =>
        lastGet[1].out.err # "nil"

(***************************************************************************)
(* Vector Store Waiter: properties                                         *)
(***************************************************************************)
MinOf(a, b) == IF a < b THEN a ELSE b

NonTerminal(status) == status \notin {"completed", "failed"}

\* C12: the sleep between polls starts at 1 second, doubles on each round,
\* and never exceeds the caller-supplied maxDelay: the i-th sleep lasts
\* min(2^(i-1), maxDelay) seconds.
C12_BackoffSchedule ==
    \A i \in 1..Len(vSleeps) :
        /\ vSleeps[i] = MinOf(Pow2(i - 1), maxDelay)
        /\ vSleeps[i] <= maxDelay

\* C13: when the waiter reads an elapsed time above the timeout after a poll
\* that observed a non-terminal status, it returns the timeout error, which
\* differs from the error for a reported `failed` status, and this poll is
\* the last one.
C13_TimeoutDistinct ==
    /\ StoreTimeoutErr # StoreFailedErr
    /\ \A i \in 1..Len(vObserved) :
         (NonTerminal(vObserved[i]) /\ vSince[i] > timeout) =>
             /\ i = Len(vObserved)
             /\ vFetches = i
             /\ vPc = "done"
             /\ vResult = StoreTimeoutErr
    /\ "failed" \in Range(vObserved) => vResult # StoreTimeoutErr

\* C13 witness: two polls within the timeout, the third one beyond it.
C13_Witness ==
    /\ vPc = "done"
    /\ timeout = 6
    /\ vObserved = <<"in_progress", "in_progress", "in_progress">>
    /\ vSince[3] > timeout
    /\ vFetches = 3
    /\ vResult = StoreTimeoutErr

\* C18: the waiter returns success exactly when a poll observes
\* `completed`, returns the failure error when a poll observes `failed`,
\* and after any other status (empty and unrecognized ones included) goes
\* on to sleep and poll again as long as the timeout has not been exceeded.
C18_StatusClassification ==
    /\ vResult = StoreCompletedNil <=>
           (vObserved # <<>> /\ Last(vObserved) = "completed")
    /\ \A i \in 1..Len(vObserved) :
         /\ vObserved[i] \in {"completed", "failed"} =>
                (i = Len(vObserved) /\ vPc = "done" /\ vFetches = i)
         /\ vObserved[i] = "failed" => vResult = StoreFailedErr
         /\ (NonTerminal(vObserved[i]) /\ vSince[i] <= timeout) =>
                /\ Len(vSleeps) >= i
                /\ \/ vFetches > i
                   \/ vPc \in {"sleep", "poll"}

\* C18 witness: an empty and an unrecognized status were polled through and
\* the third poll observed `completed`.
C18_Witness ==
    /\ vPc = "done"
    /\ vObserved = <<"", "expired", "completed">>
    /\ vResult = StoreCompletedNil
    /\ Len(vSleeps) = 2

\* C26: cancelling and pending are defined status constants but not
\* continue-states of WaitForRun: the observation of either is the last
\* fetch and WaitForRun returns the unknown-status error, so no status
\* (cancelled in particular) is ever observed after cancelling.
C26_CancellingNotWaited ==
    /\ \A i \in 1..Len(observed) :
         observed[i] \in {RunStatusCancelling, RunStatusPending} =>
            /\ i = Len(observed)
            /\ fetches = i
            /\ sleeps = i - 1
            /\ wPc = "done"
            /\ wResult = "unknown run status"
    /\ \A i \in 1..Len(observed) :
         (i > 1 /\ observed[i] = RunStatusCancelled) =>
            observed[i - 1] # RunStatusCancelling

\* C26 witness: in_progress, then cancelling, and WaitForRun has returned.
C26_Witness ==
    /\ wPc = "done"
    /\ observed = <<"in_progress", "cancelling">>
    /\ fetches = 2
    /\ wResult = "unknown run status"

(***************************************************************************)
(* Transport: wait schedule and the final wait                             *)
(***************************************************************************)
\* C23: the wait after failed attempt number a (from 0) is
\* min(2s * 2^a, 30s): the successive waits are 2s, 4s, 8s, 16s, 30s,
\* non-decreasing and never above 30s.
C23_WaitSchedule ==
    /\ Len(rWaits) <= 5
    /\ \A i \in 1..Len(rWaits) :
         /\ rWaits[i] = MinOf(2 * Pow2(i - 1), 30)
         /\ rWaits[i] = <<2, 4, 8, 16, 30>>[i]
         /\ rWaits[i] <= 30
         /\ i > 1 => rWaits[i - 1] <= rWaits[i]

\* C23 witness: five failed attempts, five waits.
C23_Witness == rWaits = <<2, 4, 8, 16, 30>>

\* C28: DoWithRetry waits after every failed attempt, the fifth included:
\* the exhaustion error is returned only after the final 30s wait has
\* elapsed with the context not cancelled, and a call that ends with its
\* context cancelled (during the final wait, or already at the failure of
\* the first attempt) returns the cancellation error, not the exhaustion
\* error.
C28_FinalWait ==
    /\ Len(rWaits) = NumFailed(rTrace)
    /\ rResult.err.kind = "exhausted" =>
          /\ Len(rWaits) = 5
          /\ rWaits[5] = 30
          /\ attempt = 5
          /\ ~rCtxDone
    /\ (rPc = "done" /\ rCtxDone) =>
          rResult = [resp |-> NoResp, err |-> CancelledErr]

\* C28 witness: the fifth attempt failed at the connection level, the
\* context was cancelled during the final wait, and the cancellation error
\* was returned.
C28_Witness ==
    /\ rPc = "done"
    /\ Len(rTrace) = 5
    /\ rTrace[5].kind = "err"
    /\ rTrace[5].err \in TransportErrors
    /\ Len(rWaits) = 5
    /\ rWaits[5] = 30
    /\ rCtxDone
    /\ rResult.err = CancelledErr

(***************************************************************************)
(* Stream Consumer: the run request and the error channel                  *)
(***************************************************************************)
\* Number of streaming run-creation requests issued so far.
NumRunRequests == Cardinality({i \in 1..Len(requests) : requests[i] = "runs"})

\* C24: a call of StreamThread that gets past AddMessage issues the
\* streaming run-creation request exactly once, never more: a transport
\* failure of that request is not retried and is delivered on the error
\* channel, after which both channels are closed.
C24_RunRequestOnce ==
    /\ NumRunRequests <= 1
    /\ sPc \in {"start", "request"} => NumRunRequests = 0
    /\ (sPc \notin {"start", "request"} /\ exitPath # "AddMessage") =>
          NumRunRequests = 1
    /\ exitPath = "Do" =>
          /\ Last(requests) = "runs"
          /\ runResp = 0
          /\ errSent = <<"could not send request">>
          /\ received = <<>>
          /\ sPc \in {"return", "done"}
          /\ sPc = "done" => (textClosed = 1 /\ errClosed = 1)

\* C24 witness: the run request failed at the transport level, the caller
\* received the error and found both channels closed.
C24_Witness ==
    /\ sPc = "done"
    /\ exitPath = "Do"
    /\ NumRunRequests = 1
    /\ errRecv = <<"could not send request">>
    /\ textClosed = 1
    /\ errClosed = 1

\* C27: in every execution of the goroutine at most one value is sent on
\* errChan, and wherever the goroutine can still send, the buffer of
\* capacity 1 is empty: the send never blocks, whether or not the caller
\* reads errChan.
C27_SingleError ==
    /\ Len(errSent) <= 1
    /\ Len(errBuf) <= ErrChanCap
    /\ sPc \in {"start", "request", "scan", "send"} =>
          (errSent = <<>> /\ errBuf = <<>>)

\* C27 witness: the goroutine finished after sending an error that the
\* caller never read.
C27_Witness ==
    /\ sPc = "done"
    /\ errSent = <<"scanner error">>
    /\ errBuf = <<"scanner error">>
    /\ errRecv = <<>>
    /\ errClosed = 1

\* C25: when the caller keeps receiving from both channels and the body
\* ends, errors or yields [DONE], the goroutine eventually terminates with
\* both channels closed; while a fragment is pending and the caller does
\* not receive it, the goroutine stays blocked on the send and neither
\* channel is closed, also after the context is cancelled.
C25_DrainTerminates ==
    /\ <>(sPc = "done" /\ textClosed = 1 /\ errClosed = 1)
    /\ [](sPc = "send" => (pending # NoValue /\ textClosed = 0 /\ errClosed = 0))
    /\ [][(sPc = "send" /\ received' = received) =>
             (sPc' = "send" /\ pending' = pending /\ textClosed' = 0 /\ errClosed' = 0)]_vars

\* C25 witness: the context is cancelled while a fragment is pending and
\* the goroutine is still blocked on the send.
C25_Witness ==
    /\ sPc = "send"
    /\ pending = "A"
    /\ sCtxDone
    /\ textClosed = 0
    /\ errClosed = 0

(***************************************************************************)
(* AddMessage: properties                                                  *)
(***************************************************************************)
\* A non-200 response whose body contains "Can't add messages to thread".
CantAddResponse(o) == o.kind = "resp" /\ o.code # 200 /\ o.cantAdd

\* C21: AddMessage sends at most two requests: a non-200 response whose
\* body contains "Can't add messages to thread" triggers exactly one resend
\* after a wait, and AddMessage then succeeds iff the resend returns 200;
\* any other non-200 response yields an error after a single request, with
\* no resend and no wait.
C21_AddMessageResend ==
    /\ Len(aTrace) <= 2
    /\ Len(aTrace) = 2 => (CantAddResponse(aTrace[1]) /\ aSleeps = 1)
    /\ (aPc = "done" /\ aTrace # <<>>) =>
          /\ CantAddResponse(aTrace[1]) =>
                /\ Len(aTrace) = 2
                /\ aSleeps = 1
                /\ aResult = "nil" <=>
                      (aTrace[2].kind = "resp" /\ aTrace[2].code = 200)
          /\ (aTrace[1].kind = "resp" /\ aTrace[1].code # 200 /\ ~aTrace[1].cantAdd) =>
                /\ Len(aTrace) = 1
                /\ aSleeps = 0
                /\ aResult = "unexpected status code"

\* C21 witness: 400 with the phrase, one wait, a resend answered 200.
C21_Witness ==
    /\ aPc = "done"
    /\ aTrace = <<[kind |-> "resp", code |-> 400, cantAdd |-> TRUE],
                  [kind |-> "resp", code |-> 200, cantAdd |-> FALSE]>>
    /\ aSleeps = 1
    /\ aResult = "nil"

(***************************************************************************)
(* Vector Store Waiter: cancellation, timeout order, response bodies       *)
(***************************************************************************)
\* C22: the caller's context governs the whole of
\* WaitForVectorStoreCompletion: once ctx is cancelled the waiter starts no
\* further status fetch, and at the top of its loop it returns a
\* cancellation error.
C22_StoreCancel ==
    /\ [][vCtxDone => vFetches' = vFetches]_vars
    /\ [][(vPc = "poll" /\ vCtxDone) =>
             (vPc' = "done" /\ vResult' = CtxErr)]_vars

\* C29: the waiter always fetches at least once and looks at the fetched
\* status before the timeout: a poll that observes completed or failed
\* returns that outcome even when the timeout has already elapsed (timeout 0
\* included), and the timeout error is returned only after a poll that
\* observed a non-terminal status.
C29_StatusBeforeTimeout ==
    /\ vPc = "done" => vFetches >= 1
    /\ \A i \in 1..Len(vObserved) :
         vSince[i] > timeout =>
            /\ vObserved[i] = "completed" => vResult = StoreCompletedNil
            /\ vObserved[i] = "failed" => vResult = StoreFailedErr
    /\ vResult = StoreTimeoutErr =>
          /\ vObserved # <<>>
          /\ Len(vObserved) = vFetches
          /\ NonTerminal(Last(vObserved))
          /\ Last(vSince) > timeout

\* C29 witness: with timeout 0 the first poll, finished after the timeout,
\* observed completed and the waiter returned success.
C29_Witness ==
    /\ vPc = "done"
    /\ timeout = 0
    /\ vObserved = <<"completed">>
    /\ vSince[1] > timeout
    /\ vResult = StoreCompletedNil

\* C30: WaitForVectorStoreCompletion closes no response body before it
\* returns: while it runs, every response obtained so far is still open (n
\* after n polls), and they are closed only by the return; WaitForRun never
\* has more than one body open, since GetRun closes its body before it
\* returns.
C30_OpenBodies ==
    /\ [](vPc # "done" => (vOpen = vFetches /\ vOpen = Len(vObserved)))
    /\ [](vPc = "done" => vOpen = 0)
    /\ [][vOpen' < vOpen => (vPc # "done" /\ vPc' = "done")]_vars
    /\ [](wOpenPeak <= 1 /\ wOpen = 0)

\* C30 witness: three polls done, three bodies open, the waiter asleep.
C30_Witness ==
    /\ vPc = "sleep"
    /\ vFetches = 3
    /\ vOpen = 3

====
